---- MODULE Spec2Model ----
(***************************************************************************)
(* A model of the Fanuc lab kinematics package: robot_components.py        *)
(* (Brush, Link, Joint), general_utility.py (check_proper_numpy_format)    *)
(* and fanuc.py (Fanuc).                                                   *)
(*                                                                         *)
(* Numbers.  Arm angles are counted in quarter turns (1 = pi/2), so that   *)
(* every sine and cosine is -1, 0 or 1 and every homogeneous transform of  *)
(* the arm is an exact 4x4 integer matrix.  Tool angles are counted in     *)
(* eighth turns (1 = pi/4), the unit of Brush._create_tool_relative_frames.*)
(***************************************************************************)
EXTENDS Integers, Sequences, FiniteSets, TLC

VARIABLES
  selection,                          \* Brush._selection
  previously_selected_brush_frame,    \* Brush._previously_selected_brush_frame
  frame_dh_read,                      \* what the last read of selected_brush_frame_dh gave
  last_assigned_nonzero,              \* history: the last non-zero value stored by the selection setter
  last_op,                            \* history: the operation that ran last
  raised,                             \* the exception the last operation raised, or "none"
  last_arg,                           \* history: the argument of the last transform-taking call
  tool_base_frame,                    \* Brush._tool_base_frame
  brush_frames,                       \* Brush._brush_frames
  brush_drawn_once,                   \* Brush._drawn_once
  joints,                             \* Fanuc._joint_1 .. _joint_6: a Joint object each
  base_frame,                         \* Fanuc._base_frame: a Joint object
  zero_frame,                         \* Fanuc._zero_frame: a Joint object
  links,                              \* Fanuc._links: a Link object each
  fanuc_drawn_once,                   \* Fanuc._drawn_once
  fk_angles,                          \* history: the joint angles calculate_fk loaded last
  ee_frame_read,                      \* history: what the last read of Fanuc.ee_frame gave
  pc,                                 \* per caller: the steps of calculate_fk-then-ee_frame it has taken
  cfg,                                \* per caller: the configuration it passes to calculate_fk
  result,                             \* per caller: the frame its read of ee_frame gave
  overlapped,                         \* history, per caller: another caller stepped while it was under way
  ik_frame,                           \* the end-effector frame handed to calculate_ik
  ik_prev,                            \* the previous joint angles handed to calculate_ik
  ik_return,                          \* what calculate_ik returned
  path,                               \* the waypoints of the path being drawn
  starting_angles,                    \* draw_fanuc_path's starting configuration
  status,                             \* draw_fanuc_path: "idle", "running", "completed", "aborted", "raised"
  wp_index,                           \* the index (from 0) of the next waypoint
  prev_angles,                        \* the configuration the next solve is seeded with
  trajectory,                         \* the configurations solved so far
  abort_info,                         \* the failing index and reason of an aborted path
  renders,                            \* history: the configurations handed to the renderer
  resolves,                           \* history: the indices of the waypoints resolved
  solves,                             \* history: every call of calculate_ik the executor made
  artist_calls,                       \* history, per drawing artist: the draw() and redraw() calls the drawing specification made on it
  initialize_calls,                   \* history: the runs of initialize_fanuc_drawing
  fanuc_draws                         \* history: the calls of draw_fanuc counted

brushVars == <<selection, previously_selected_brush_frame, frame_dh_read,
               last_assigned_nonzero>>
toolVars == <<tool_base_frame, brush_frames, brush_drawn_once>>
armVars == <<joints, base_frame, zero_frame, links, fanuc_drawn_once>>
fkVars == <<fk_angles, ee_frame_read>>
callerVars == <<pc, cfg, result, overlapped>>
ikVars == <<ik_frame, ik_prev, ik_return>>
pathVars == <<path, starting_angles, status, wp_index, prev_angles, trajectory,
              abort_info, renders, resolves, solves>>
drawVars == <<artist_calls, initialize_calls, fanuc_draws>>
restVars == <<callerVars, ikVars, pathVars, drawVars>>
storeVars == <<last_arg, toolVars, armVars, fkVars, restVars>>
vars == <<brushVars, last_op, raised, storeVars>>

----------------------------------------------------------------------------
(* Python values *)

\* An int object.
PyInt(n) == [type |-> "int", val |-> n]

\* A str object (stands for every non-int handed to the selection setter).
PyStr == [type |-> "str", val |-> 0]

\* list.__getitem__ with Python's index rule: 0 <= i < n counts from the
\* front, -n <= i < 0 from the back, anything else raises IndexError.
PyIndexInRange(list, i) == (0 - Len(list)) <= i /\ i < Len(list)

PyGetItem(list, i) == IF i >= 0 THEN list[i + 1] ELSE list[Len(list) + i + 1]

\* The position (0-based, from the front) Python reads for index i.
PyPosition(list, i) == IF i >= 0 THEN i ELSE Len(list) + i

----------------------------------------------------------------------------
(* 4x4 matrices and numpy arrays *)

eye4 == << <<1, 0, 0, 0>>, <<0, 1, 0, 0>>, <<0, 0, 1, 0>>, <<0, 0, 0, 1>> >>

eye3 == << <<1, 0, 0>>, <<0, 1, 0>>, <<0, 0, 1>> >>

\* A numpy array holding the matrix m.
ndarray(m) == [type |-> "ndarray", shape |-> <<Len(m), Len(m[1])>>, data |-> m]

\* A nested Python list holding the matrix m (not a numpy array).
pylist(m) == [type |-> "list", shape |-> <<Len(m), Len(m[1])>>, data |-> m]

\* The matrix product a @ b of two 4x4 arrays.
MatMul(a, b) ==
  LET x == a.data
      y == b.data
      dot(i, j) == x[i][1] * y[1][j] + x[i][2] * y[2][j]
                 + x[i][3] * y[3][j] + x[i][4] * y[4][j]
      row(i) == <<dot(i, 1), dot(i, 2), dot(i, 3), dot(i, 4)>>
  IN ndarray(<<row(1), row(2), row(3), row(4)>>)

np_eye4 == ndarray(eye4)

\* A pure translation.
Translation(x, y, z) ==
  ndarray(<< <<1, 0, 0, x>>, <<0, 1, 0, y>>, <<0, 0, 1, z>>, <<0, 0, 0, 1>> >>)

\* general.check_proper_numpy_format: True iff value is an ndarray of the shape.
check_proper_numpy_format(value, shape) ==
  IF value.type # "ndarray" THEN FALSE
  ELSE IF value.shape # shape THEN FALSE
  ELSE TRUE

----------------------------------------------------------------------------
(* Brush *)

\* len(self._colors): the number of tool variants.
NumColors == 4

\* Tool dimensions in millimetres.
l_t_rad == 50
l_t == 300

\* Brush._make_tool_frame: yawT(rz) @ trans_x @ pitchT(ry) @ trans_z applied to
\* the identity.  The angles are odd multiples of pi/4, so the product is kept
\* in factored form: base is the (integer) frame it is expressed in, rotation
\* the X, Y, Z angles in eighth turns, translation the X, Y, Z lengths.
\* Two such frames are equal iff their factors are.
make_tool_frame(rotation, translation) ==
  [type |-> "ndarray", shape |-> <<4, 4>>, base |-> np_eye4,
   rotation |-> rotation, translation |-> translation]

\* Brush._create_tool_relative_frames: the four frames, in append order.
tool_relative_frames ==
  << make_tool_frame(<<0, 0 - 1, 5>>, <<0 - l_t_rad, 0, l_t>>),
     make_tool_frame(<<0, 0 - 1, 7>>, <<0 - l_t_rad, 0, l_t>>),
     make_tool_frame(<<0, 0 - 1, 1>>, <<0 - l_t_rad, 0, l_t>>),
     make_tool_frame(<<0, 0 - 1, 3>>, <<0 - l_t_rad, 0, l_t>>) >>

\* What a read of a property gave: nothing yet, a value, or an exception.
NoRead == [outcome |-> "none", index |-> 0]
ReadOk(i) == [outcome |-> "ok", index |-> PyPosition(tool_relative_frames, i),
              frame |-> PyGetItem(tool_relative_frames, i)]
ReadIndexError == [outcome |-> "IndexError", index |-> 0]

\* The selection setter's verdict on a value: the exception it raises, or "none".
selection_setter_raises(value) ==
  IF value.type # "int" THEN "TypeError"
  ELSE IF value.val > NumColors THEN "ValueError"
  ELSE "none"

\* Brush.selection = value.
SetSelection(value) ==
  /\ last_op' = "selection.setter"
  /\ raised' = selection_setter_raises(value)
  /\ IF selection_setter_raises(value) = "none"
       THEN /\ selection' = value.val
            /\ last_assigned_nonzero' =
                 IF value.val # 0 THEN value.val ELSE last_assigned_nonzero
       ELSE UNCHANGED <<selection, last_assigned_nonzero>>
  /\ UNCHANGED <<previously_selected_brush_frame, frame_dh_read, storeVars>>

\* The index selected_brush_frame_dh uses into _tool_relative_frames.
frame_dh_index(sel, prev) == IF sel = 0 THEN prev ELSE sel - 1

\* The value selected_brush_frame_dh leaves in _previously_selected_brush_frame.
frame_dh_retained(sel, prev) == IF sel = 0 THEN prev ELSE sel

\* A read of Brush.selected_brush_frame_dh.
ReadFrameDh ==
  LET i == frame_dh_index(selection, previously_selected_brush_frame) IN
  /\ last_op' = "selected_brush_frame_dh"
  /\ previously_selected_brush_frame' =
       frame_dh_retained(selection, previously_selected_brush_frame)
  /\ IF PyIndexInRange(tool_relative_frames, i)
       THEN frame_dh_read' = ReadOk(i) /\ raised' = "none"
       ELSE frame_dh_read' = ReadIndexError /\ raised' = "IndexError"
  /\ UNCHANGED <<selection, last_assigned_nonzero, storeVars>>


----------------------------------------------------------------------------
(* Joint and Link objects *)

\* Joint.__init__.
NewJoint ==
  [joint_limit |-> <<0, 0>>, dh_transform |-> np_eye4,
   final_transform |-> np_eye4, drawing_frame |-> np_eye4, drawn_once |-> FALSE]

\* Joint.set_joint_limits.
Joint_set_joint_limits(self, low_limit, high_limit) ==
  [self EXCEPT !.joint_limit = <<low_limit, high_limit>>]

\* Joint.low_limit and Joint.high_limit.
low_limit(self) == self.joint_limit[1]
high_limit(self) == self.joint_limit[2]

\* A slip in is_inside_joint_limit: only the low limit is tested.
is_inside_joint_limit_low_only(self, input_angle) ==
  IF ~(low_limit(self) <= input_angle) THEN FALSE ELSE TRUE

\* A slip in is_inside_joint_limit: "or" between the two comparisons.
is_inside_joint_limit_either(self, input_angle) ==
  IF ~(low_limit(self) <= input_angle \/ input_angle <= high_limit(self))
    THEN FALSE
    ELSE TRUE

\* Joint.is_inside_joint_limit: low_limit <= input_angle <= high_limit.
is_inside_joint_limit(self, input_angle) ==
  IF ~(low_limit(self) <= input_angle /\ input_angle <= high_limit(self))
    THEN FALSE
    ELSE TRUE

\* Link.__init__; drawing_frames is what the LinkDrawing was handed last.
NewLink == [drawing_frames |-> <<np_eye4, np_eye4>>, drawn_once |-> FALSE]

\* Joint._update_drawing: the artist is handed the joint's final transform.
Joint_update_drawing(self) == [self EXCEPT !.drawing_frame = self.final_transform]

\* A slip in set_dh_transform: the value lands in _final_transform.
Joint_set_dh_transform_in_final(self, transform) ==
  Joint_update_drawing([self EXCEPT !.final_transform = transform])

\* Joint.set_dh_transform: the format check's result is discarded, the value
\* stored, and the artist updated.
Joint_set_dh_transform(self, transform) ==
  LET well_formed == check_proper_numpy_format(transform, <<4, 4>>) IN
  Joint_update_drawing([self EXCEPT !.dh_transform = transform])

\* Joint.set_final_transform: the format check's result is discarded.
Joint_set_final_transform(self, transform) ==
  LET well_formed == check_proper_numpy_format(transform, <<4, 4>>) IN
  [self EXCEPT !.final_transform = transform]

\* Joint.draw's call on its FrameDrawing.
Joint_draw_call(self) == IF ~self.drawn_once THEN "draw" ELSE "redraw"

\* A slip in Joint.draw: _drawn_once is never set.
Joint_draw_unmarked(self) == Joint_update_drawing(self)

\* Joint.draw: update the artist, then draw() the first time, redraw() after.
Joint_draw(self) == [Joint_update_drawing(self) EXCEPT !.drawn_once = TRUE]

\* Link.update_frames: both checks' results are discarded and the frames are
\* handed to the LinkDrawing.
Link_update_frames(self, frame_1, frame_2) ==
  LET well_formed == /\ check_proper_numpy_format(frame_1, <<4, 4>>)
                     /\ check_proper_numpy_format(frame_2, <<4, 4>>) IN
  [self EXCEPT !.drawing_frames = <<frame_1, frame_2>>]

\* Link.draw's call on its LinkDrawing.
Link_draw_call(self) == IF ~self.drawn_once THEN "draw" ELSE "redraw"

\* Link.draw.
Link_draw(self) == [self EXCEPT !.drawn_once = TRUE]

----------------------------------------------------------------------------
(* Brush.update_tool_frame *)

\* numpy's verdict on base @ frame for a 4x4 right operand: a nested list is
\* converted and multiplied, a 3x3 left operand does not match (ValueError).
matmul_raises(base) == IF base.shape # <<4, 4>> THEN "ValueError" ELSE "none"

\* self._tool_base_frame @ frame for a relative tool frame kept in factored form.
ToolMatMul(base, frame) == [frame EXCEPT !.base = MatMul(base, frame.base)]

\* Brush._update_tool_frames: every brush frame becomes base @ relative frame;
\* the product raises before the first assignment when the base does not fit.
Brush_update_tool_frames(base) ==
  IF matmul_raises(base) = "none"
    THEN brush_frames' = [i \in 1..NumColors |->
                            ToolMatMul(base, tool_relative_frames[i])]
    ELSE UNCHANGED brush_frames

\* Brush.update_tool_frame: the format check's result is discarded and the
\* frame stored before the brush frames are recomputed.
Brush_update_tool_frame(frame) ==
  LET well_formed == check_proper_numpy_format(frame, <<4, 4>>) IN
  /\ tool_base_frame' = frame
  /\ Brush_update_tool_frames(frame)

----------------------------------------------------------------------------
(* The transform-taking operations called on their own *)

\* The arguments tried: a well-formed transform, a 3x3 array, a nested list.
TransformInputs == {Translation(1, 0, 0), ndarray(eye3), pylist(eye4)}

SetDhTransform(j, transform) ==
  /\ last_op' = "set_dh_transform"
  /\ last_arg' = <<transform>>
  /\ raised' = "none"
  /\ joints' = [joints EXCEPT ![j] = Joint_set_dh_transform(joints[j], transform)]
  /\ UNCHANGED <<brushVars, toolVars, base_frame, zero_frame, links,
                 fanuc_drawn_once, fkVars, restVars>>

SetFinalTransform(j, transform) ==
  /\ last_op' = "set_final_transform"
  /\ last_arg' = <<transform>>
  /\ raised' = "none"
  /\ joints' = [joints EXCEPT ![j] = Joint_set_final_transform(joints[j], transform)]
  /\ UNCHANGED <<brushVars, toolVars, base_frame, zero_frame, links,
                 fanuc_drawn_once, fkVars, restVars>>

UpdateToolFrame(frame) ==
  /\ last_op' = "update_tool_frame"
  /\ last_arg' = <<frame>>
  /\ raised' = matmul_raises(frame)
  /\ Brush_update_tool_frame(frame)
  /\ UNCHANGED <<brushVars, brush_drawn_once, armVars, fkVars, restVars>>

UpdateLinkFrames(k, frame_1, frame_2) ==
  /\ last_op' = "update_frames"
  /\ last_arg' = <<frame_1, frame_2>>
  /\ raised' = "none"
  /\ links' = [links EXCEPT ![k] = Link_update_frames(links[k], frame_1, frame_2)]
  /\ UNCHANGED <<brushVars, toolVars, joints, base_frame, zero_frame,
                 fanuc_drawn_once, fkVars, restVars>>

\* One Joint and one Link are exercised: the objects do not interact.
NextShape ==
  \/ \E transform \in TransformInputs : SetDhTransform(1, transform)
  \/ \E transform \in TransformInputs : SetFinalTransform(1, transform)
  \/ \E frame \in TransformInputs : UpdateToolFrame(frame)
  \/ \E frame_1, frame_2 \in TransformInputs : UpdateLinkFrames(1, frame_1, frame_2)

----------------------------------------------------------------------------
(* Bounds of the inputs *)

\* Selection values tried run from -NegSelections to MaxSelectionInput.
NegSelections == 1
MaxSelectionInput == 5

SelectionInputs ==
  {PyInt(n) : n \in (0 - NegSelections)..MaxSelectionInput} \cup {PyStr}

----------------------------------------------------------------------------
(* Brush.__init__, Joint.__init__, Link.__init__ *)

Joints == 1..6

\* Two threads calling into one Fanuc.
Callers == {1, 2}

\* calculate_ik has not returned; draw_fanuc_path has not aborted.
NoReturn == [found |-> FALSE, q |-> <<>>, reason |-> "not called"]
NoAbort == [index |-> 0 - 1, reason |-> "none"]

InitBrush ==
  /\ selection = 0
  /\ previously_selected_brush_frame = 1
  /\ frame_dh_read = NoRead
  /\ last_assigned_nonzero = 0
  /\ tool_base_frame = np_eye4
  /\ brush_frames = [i \in 1..NumColors |-> np_eye4]
  /\ brush_drawn_once = FALSE

InitHistory ==
  /\ last_op = "init"
  /\ raised = "none"
  /\ last_arg = <<>>
  /\ fk_angles = <<>>
  /\ ee_frame_read = np_eye4
  /\ pc = [c \in Callers |-> 0]
  /\ result = [c \in Callers |-> np_eye4]
  /\ overlapped = [c \in Callers |-> FALSE]
  /\ ik_return = NoReturn
  /\ status = "idle"
  /\ wp_index = 0
  /\ trajectory = <<>>
  /\ abort_info = NoAbort
  /\ renders = <<>>
  /\ resolves = <<>>
  /\ solves = <<>>
  /\ initialize_calls = 0
  /\ fanuc_draws = 0

\* No caller thread outside the two-caller specification.
NoCallers == cfg = [c \in Callers |-> <<0, 0, 0, 0, 0, 0>>]

\* No call of calculate_ik on its own outside the solver's specification.
NoIkCall ==
  /\ ik_frame = np_eye4
  /\ ik_prev = <<0, 0, 0, 0, 0, 0>>

\* No path outside the executor's specification.
NoPath ==
  /\ path = <<>>
  /\ starting_angles = <<0, 0, 0, 0, 0, 0>>
  /\ prev_angles = <<0, 0, 0, 0, 0, 0>>

\* The drawing artists: one FrameDrawing per Joint (the six joints, the base
\* frame and the zero frame) and one LinkDrawing per Link.
Artists ==
  ({"joint", "link"} \X Joints) \cup {<<"base", 0>>, <<"zero", 0>>}

\* Freshly constructed components, outside a Fanuc.
Init ==
  /\ InitBrush
  /\ artist_calls = [a \in Artists |-> <<>>]
  /\ InitHistory
  /\ NoCallers
  /\ NoIkCall
  /\ NoPath
  /\ joints = [j \in Joints |-> NewJoint]
  /\ base_frame = NewJoint
  /\ zero_frame = NewJoint
  /\ links = [j \in Joints |-> NewLink]
  /\ fanuc_drawn_once = FALSE

Next ==
  \/ \E value \in SelectionInputs : SetSelection(value)
  \/ ReadFrameDh

Spec == Init /\ [][Next]_vars

SpecShape == Init /\ [][NextShape]_vars
----------------------------------------------------------------------------
(* Transform library, in quarter turns *)

Cos4(k) == CASE k % 4 = 0 -> 1 [] k % 4 = 1 -> 0 [] k % 4 = 2 -> 0 - 1 [] OTHER -> 0

Sin4(k) == CASE k % 4 = 0 -> 0 [] k % 4 = 1 -> 1 [] k % 4 = 2 -> 0 [] OTHER -> 0 - 1

RotX(k) ==
  ndarray(<< <<1, 0, 0, 0>>,
             <<0, Cos4(k), 0 - Sin4(k), 0>>,
             <<0, Sin4(k), Cos4(k), 0>>,
             <<0, 0, 0, 1>> >>)

RotY(k) ==
  ndarray(<< <<Cos4(k), 0, Sin4(k), 0>>,
             <<0, 1, 0, 0>>,
             <<0 - Sin4(k), 0, Cos4(k), 0>>,
             <<0, 0, 0, 1>> >>)

RotZ(k) ==
  ndarray(<< <<Cos4(k), 0 - Sin4(k), 0, 0>>,
             <<Sin4(k), Cos4(k), 0, 0>>,
             <<0, 0, 1, 0>>,
             <<0, 0, 0, 1>> >>)

\* make_frame: the rotation Z, then Y, then X applied to the identity, with
\* the translation.
make_frame(rotation, translation) ==
  MatMul(Translation(translation[1], translation[2], translation[3]),
         MatMul(RotZ(rotation[3]), MatMul(RotY(rotation[2]), RotX(rotation[1]))))

\* dh_tf: RotZ(theta) . TransZ(d) . TransX(a) . RotX(alpha).  The source leaves
\* the body blank; this is the product section 4.1 of the specification states.
dh_tf(alpha, a, d, theta) ==
  MatMul(RotZ(theta),
         MatMul(Translation(0, 0, d), MatMul(Translation(a, 0, 0), RotX(alpha))))

----------------------------------------------------------------------------
(* Fanuc: geometry *)

\* Fanuc.a_1 and Fanuc.l_1_z: link length and mount height.  The source leaves
\* both blank; the model fixes small positive lengths.
a_1 == 1
l_1_z == 2

\* The joints' DH parameters: twist alpha and angle offset in quarter turns,
\* lengths a and d.  The source leaves the table to _setup_joints' author; this
\* is an elbow manipulator with a spherical wrist, as section 4.3 assumes.
DHTable ==
  << [alpha |-> 1,     a |-> a_1, d |-> 0, offset |-> 0],
     [alpha |-> 0,     a |-> 3,   d |-> 0, offset |-> 1],
     [alpha |-> 1,     a |-> 0,   d |-> 0, offset |-> 0],
     [alpha |-> 0 - 1, a |-> 0,   d |-> 2, offset |-> 0],
     [alpha |-> 1,     a |-> 0,   d |-> 0, offset |-> 0],
     [alpha |-> 0,     a |-> 0,   d |-> 1, offset |-> 0] >>

\* The joints' angular ranges [low, high], in quarter turns, as _setup_joints
\* hands them to set_joint_limits (the source leaves the values blank).
JointLimits ==
  << <<0 - 2, 2>>, <<0 - 1, 1>>, <<0 - 1, 2>>, <<0 - 2, 2>>, <<0 - 1, 1>>, <<0 - 2, 2>> >>

\* Joint j's DH transform at angle theta.
JointTransform(j, theta) ==
  dh_tf(DHTable[j].alpha, DHTable[j].a, DHTable[j].d, theta + DHTable[j].offset)

\* The base frame Fanuc.__init__ makes: make_frame([0, 0, 0], [0, 0, l_1_z]).
BaseFrame == make_frame(<<0, 0, 0>>, <<0, 0, l_1_z>>)

----------------------------------------------------------------------------
(* Fanuc: forward kinematics and drawing *)

\* A slip in ee_frame: the six transforms multiplied in the order 6..1.
ee_frame_reversed(js) ==
  MatMul(MatMul(MatMul(MatMul(MatMul(js[6].dh_transform, js[5].dh_transform),
                              js[4].dh_transform),
                       js[3].dh_transform),
                js[2].dh_transform),
         js[1].dh_transform)

\* Fanuc.ee_frame: the product of the six joints' stored DH transforms.
ee_frame(js) ==
  MatMul(MatMul(MatMul(MatMul(MatMul(js[1].dh_transform, js[2].dh_transform),
                              js[3].dh_transform),
                       js[4].dh_transform),
                js[5].dh_transform),
         js[6].dh_transform)

\* Fanuc.calculate_fk: load each joint's DH transform for the given angles.
calculate_fk(js, joint_angles) ==
  [j \in Joints |->
     Joint_set_dh_transform(js[j], JointTransform(j, joint_angles[j]))]

\* draw_fanuc's loop variable current_transform after joint n (n = 0: before
\* the loop).
RECURSIVE current_transform(_, _, _)
current_transform(base, js, n) ==
  IF n = 0 THEN base.dh_transform
  ELSE MatMul(current_transform(base, js, n - 1), js[n].dh_transform)

\* Brush._draw, as show_enabled and paint call it: the brush frames are
\* recomputed from the tool base frame and the brush is marked drawn.
Brush_draw ==
  /\ brush_drawn_once' = TRUE

\* Fanuc.draw_fanuc.
draw_fanuc(joint_angles) ==
  LET well_formed == TRUE   \* check_proper_numpy_format's result, discarded
      loaded == calculate_fk(joints, joint_angles)
      \* initialize_fanuc_drawing, the first time: calculate_fk once more
      js == IF ~fanuc_drawn_once THEN calculate_fk(loaded, joint_angles)
            ELSE loaded
  IN
  /\ fanuc_drawn_once' = TRUE
  /\ base_frame' = Joint_draw(base_frame)
  /\ zero_frame' = Joint_draw(zero_frame)
  /\ joints' = [j \in Joints |->
        Joint_draw(Joint_set_final_transform(
                     js[j], current_transform(base_frame, js, j)))]
  /\ links' = [j \in Joints |->
        Link_draw(Link_update_frames(
                    links[j], current_transform(base_frame, js, j - 1),
                    current_transform(base_frame, js, j)))]
  /\ Brush_update_tool_frame(current_transform(base_frame, js, 6))
  /\ Brush_draw

\* The configurations tried, in quarter turns.
FkInputs ==
  { <<0, 0, 0, 0, 0, 0>>,
    <<1, 0, 0, 0, 0, 0>>,
    <<1, 0 - 1, 0, 0, 0, 0>>,
    <<0 - 1, 1, 0 - 1, 1, 0 - 1, 1>>,
    <<2, 1, 0, 0 - 1, 1, 2>> }

CalculateFk(joint_angles) ==
  /\ last_op' = "calculate_fk"
  /\ raised' = "none"
  /\ fk_angles' = joint_angles
  /\ joints' = calculate_fk(joints, joint_angles)
  /\ UNCHANGED <<brushVars, toolVars, last_arg, base_frame, zero_frame, links,
                 fanuc_drawn_once, ee_frame_read, restVars>>

DrawFanuc(joint_angles) ==
  /\ last_op' = "draw_fanuc"
  /\ raised' = "none"
  /\ fk_angles' = joint_angles
  /\ draw_fanuc(joint_angles)
  /\ UNCHANGED <<brushVars, last_arg, ee_frame_read, restVars>>

ReadEeFrame ==
  /\ last_op' = "ee_frame"
  /\ raised' = "none"
  /\ ee_frame_read' = ee_frame(joints)
  /\ UNCHANGED <<brushVars, toolVars, last_arg, armVars, fk_angles, restVars>>

\* Fanuc.__init__: the base frame is set, the six joints are drawn once by
\* _setup_joints, and nothing else has been drawn.
InitFanuc ==
  /\ InitBrush
  /\ InitHistory
  /\ joints = [j \in Joints |->
        Joint_draw(Joint_set_joint_limits(NewJoint, JointLimits[j][1],
                                          JointLimits[j][2]))]
  /\ base_frame = Joint_set_dh_transform(
                    Joint_set_final_transform(NewJoint, BaseFrame), BaseFrame)
  /\ zero_frame = Joint_set_final_transform(
                    Joint_set_dh_transform(NewJoint, np_eye4), np_eye4)
  /\ links = [j \in Joints |-> NewLink]
  /\ fanuc_drawn_once = FALSE
  /\ artist_calls = [a \in Artists |->
        IF a[1] = "joint" THEN <<Joint_draw_call(NewJoint)>> ELSE <<>>]

NextFk ==
  \/ \E joint_angles \in FkInputs : CalculateFk(joint_angles)
  \/ \E joint_angles \in FkInputs : DrawFanuc(joint_angles)
  \/ ReadEeFrame

InitFk == InitFanuc /\ NoCallers /\ NoIkCall /\ NoPath

SpecFk == InitFk /\ [][NextFk]_vars

----------------------------------------------------------------------------
(* Two callers on one Fanuc *)

\* The value ee_frame gives a caller that ran calculate_fk(joint_angles) alone:
\* T1 . T2 ... Tn for the first n joints.
RECURSIVE ChainProduct(_, _)
ChainProduct(joint_angles, n) ==
  IF n = 0 THEN np_eye4
  ELSE MatMul(ChainProduct(joint_angles, n - 1),
              JointTransform(n, joint_angles[n]))

\* A caller is under way once calculate_fk has stored its first transform and
\* until its read of ee_frame has returned.
UnderWay(c) == pc[c] \in 1..6

\* A step of caller c overlaps every call that is under way, and c's own call
\* when another is.
Overlap(c) ==
  overlapped' = [d \in Callers |->
     IF d = c THEN overlapped[c] \/ (\E e \in Callers \ {c} : UnderWay(e))
     ELSE overlapped[d] \/ UnderWay(d)]

\* calculate_fk's next statement for caller c: set_dh_transform on one joint.
FkStore(c) ==
  /\ pc[c] \in 0..5
  /\ joints' = [joints EXCEPT ![pc[c] + 1] =
        Joint_set_dh_transform(joints[pc[c] + 1],
                               JointTransform(pc[c] + 1, cfg[c][pc[c] + 1]))]
  /\ pc' = [pc EXCEPT ![c] = pc[c] + 1]
  /\ Overlap(c)
  /\ UNCHANGED <<brushVars, last_op, raised, last_arg, toolVars, base_frame,
                 zero_frame, links, fanuc_drawn_once, fkVars, cfg, result,
                 ikVars, pathVars, drawVars>>

\* Caller c's read of ee_frame after its calculate_fk returned.
FkRead(c) ==
  /\ pc[c] = 6
  /\ result' = [result EXCEPT ![c] = ee_frame(joints)]
  /\ pc' = [pc EXCEPT ![c] = 7]
  /\ Overlap(c)
  /\ UNCHANGED <<brushVars, last_op, raised, last_arg, toolVars, armVars,
                 fkVars, cfg, ikVars, pathVars, drawVars>>

\* Each caller brings a configuration of its own.
InitCallers ==
  /\ InitFanuc
  /\ NoIkCall
  /\ NoPath
  /\ \E a, b \in FkInputs : a # b /\ cfg = [c \in Callers |-> IF c = 1 THEN a ELSE b]

NextCallers == \E c \in Callers : FkStore(c) \/ FkRead(c)

SpecCallers == InitCallers /\ [][NextCallers]_vars

----------------------------------------------------------------------------
(* Inverse kinematics.  The source's calculate_ik is a stub; this is the      *)
(* solver of section 4.3 on the quarter-turn grid: the candidate branches    *)
(* for a frame are the configurations, each angle wrapped into (-pi, pi],    *)
(* whose forward kinematics give that frame.                                 *)

\* The angles of (-pi, pi] in quarter turns.
WrappedAngles == {0 - 1, 0, 1, 2}

\* The equivalent of angle d in (-pi, pi].
Wrap(d) == ((d + 1) % 4) - 1

Abs(n) == IF n < 0 THEN 0 - n ELSE n

\* Total angular distance between two configurations: the sum over the
\* joints of the magnitude of the wrapped difference.
AngularDistance(seed, q) ==
    Abs(Wrap(q[1] - seed[1])) + Abs(Wrap(q[2] - seed[2]))
  + Abs(Wrap(q[3] - seed[3])) + Abs(Wrap(q[4] - seed[4]))
  + Abs(Wrap(q[5] - seed[5])) + Abs(Wrap(q[6] - seed[6]))

\* Every wrapped configuration with the frame its forward kinematics give.
FkPairs ==
  { [q |-> <<q1, q2, q3, q4, q5, q6>>,
     frame |-> ChainProduct(<<q1, q2, q3, q4, q5, q6>>, 6)] :
       q1 \in WrappedAngles, q2 \in WrappedAngles, q3 \in WrappedAngles,
       q4 \in WrappedAngles, q5 \in WrappedAngles, q6 \in WrappedAngles }

\* The branches that give the frame.
Branches(frame) == { r.q : r \in { p \in FkPairs : p.frame = frame } }

\* Step 4's wrist singularity: joint 5 at zero.
WristSingular(q) == q[5] = 0

\* Steps 1-4: the candidate configurations.  At a wrist singularity joints 4
\* and 6 are coupled and joint 4 keeps its previous value.
IkCandidates(frame, prev_joint_angles) ==
  { q \in Branches(frame) :
      WristSingular(q) => q[4] = Wrap(prev_joint_angles[4]) }

\* Step 5, first half: discard every candidate that violates a joint limit.
WithinLimits(js, q) == \A j \in Joints : is_inside_joint_limit(js[j], q[j])

\* A slip in the selection: the differences are not wrapped.
Nearest_unwrapped(seed, qs) ==
  LET raw(q) == Abs(q[1] - seed[1]) + Abs(q[2] - seed[2]) + Abs(q[3] - seed[3])
              + Abs(q[4] - seed[4]) + Abs(q[5] - seed[5]) + Abs(q[6] - seed[6])
  IN { q \in qs : \A other \in qs : raw(q) <= raw(other) }

\* Step 5, second half: the candidates nearest the seed.
Nearest(seed, qs) ==
  { q \in qs : \A other \in qs :
       AngularDistance(seed, q) <= AngularDistance(seed, other) }

\* Step 6: the wrist centre, the end-effector position moved back along its
\* z axis by the wrist-to-flange offset (joint 6's d).
WristCenter(frame) ==
  << frame.data[1][4] - DHTable[6].d * frame.data[1][3],
     frame.data[2][4] - DHTable[6].d * frame.data[2][3],
     frame.data[3][4] - DHTable[6].d * frame.data[3][3] >>

\* The two arm links: joint 2's length a and joint 4's offset d.
UpperArm == DHTable[2].a
ForeArm == DHTable[4].d

\* Whether the wrist centre w lies within reach of the shoulder, which sits
\* a_1 from the base axis on the side joint 1 faces (side = 1) or on the
\* opposite side (side = -1): |UpperArm - ForeArm| <= D <= UpperArm + ForeArm
\* with D^2 = (side * r - a_1)^2 + z^2, r = sqrt(x^2 + y^2), compared exactly
\* through k <= 2 * a_1 * side * r.
InReach(w, side) ==
  LET s == w[1] * w[1] + w[2] * w[2]
      \* 2 * a_1 * side * r >= k, decided on squares
      AtLeast(k) == IF side = 1 THEN k <= 0 \/ k * k <= 4 * a_1 * a_1 * s
                    ELSE k <= 0 /\ k * k >= 4 * a_1 * a_1 * s
      AtMost(k) == IF side = 1 THEN k >= 0 /\ k * k >= 4 * a_1 * a_1 * s
                   ELSE k >= 0 \/ k * k <= 4 * a_1 * a_1 * s
      far == (UpperArm + ForeArm) * (UpperArm + ForeArm)
      near == (UpperArm - ForeArm) * (UpperArm - ForeArm)
  IN /\ AtLeast(s + a_1 * a_1 + w[3] * w[3] - far)
     /\ AtMost(s + a_1 * a_1 + w[3] * w[3] - near)

\* Step 6: no solution when the wrist centre is out of reach on both sides.
Unreachable(frame) ==
  ~InReach(WristCenter(frame), 1) /\ ~InReach(WristCenter(frame), 0 - 1)

\* calculate_ik's returns: every (found, configuration, reason) it may give.
\* Ties between nearest candidates are broken either way.
calculate_ik(js, frame, prev_joint_angles) ==
  LET valid == { q \in IkCandidates(frame, prev_joint_angles) :
                   WithinLimits(js, q) }
  IN IF Unreachable(frame)
       THEN { [found |-> FALSE, q |-> <<>>, reason |-> "unreachable"] }
     ELSE IF valid = {}
       THEN { [found |-> FALSE, q |-> <<>>, reason |-> "limits"] }
     ELSE { [found |-> TRUE, q |-> q, reason |-> "none"] :
              q \in Nearest(prev_joint_angles, valid) }

\* The frames calculate_ik is asked for: every frame the arm can take on the
\* grid and two it cannot.
IkFrames ==
  { p.frame : p \in FkPairs }
    \cup { Translation(20, 0, 0), Translation(0, 0, 0 - 9) }

\* The seeds: the home configuration, one across the wrap from most angles,
\* and one with angles outside (-pi, pi].
IkSeeds ==
  { <<0, 0, 0, 0, 0, 0>>,
    <<2, 0 - 1, 2, 2, 0 - 1, 2>>,
    <<0 - 1, 1, 1, 5, 0, 0 - 3>> }

\* One call of calculate_ik.
CalculateIk ==
  /\ ik_return = NoReturn
  /\ last_op' = "calculate_ik"
  /\ raised' = "none"
  /\ ik_return' \in calculate_ik(joints, ik_frame, ik_prev)
  /\ UNCHANGED <<brushVars, last_arg, toolVars, armVars, fkVars, callerVars, drawVars,
                 ik_frame, ik_prev, pathVars>>

InitIk ==
  /\ InitFanuc
  /\ NoCallers
  /\ NoPath
  /\ ik_frame \in IkFrames
  /\ ik_prev \in IkSeeds

NextIk == CalculateIk

SpecIk == InitIk /\ [][NextIk]_vars

----------------------------------------------------------------------------
(* The path executor.  The source's draw_fanuc_path and                      *)
(* get_ee_pose_from_brush are stubs; this is the executor of section 4.5.    *)

\* The longest path drawn.
MaxPath == 3

\* Fanuc.get_ee_pose_from_brush: the tool-tip frame times the inverse of the
\* selected relative frame.  The relative frames differ in their yaw alone,
\* by whole quarter turns, so tip . inverse(relative) is the tip's base turned
\* about z by the difference of the yaws (eighth turns, halved).
get_ee_pose_from_brush(tip, relative) ==
  MatMul(tip.base, RotZ((tip.rotation[3] - relative.rotation[3]) \div 2))

\* A waypoint: a tool selection and the tip frame wanted, here the tip tool k
\* has with the end effector in the pose of configuration q.
Waypoint(color, k, q) ==
  [color |-> color,
   tip |-> ToolMatMul(ChainProduct(q, 6), tool_relative_frames[k])]

\* A waypoint whose tip no configuration gives.
FarWaypoint(color, k) ==
  [color |-> color,
   tip |-> ToolMatMul(Translation(20, 0, 0), tool_relative_frames[k])]

\* The waypoints paths are made of: reachable ones for tools 1, 2 and 4 and
\* for "no tool", one out of reach and one whose every branch breaks a limit.
Waypoints ==
  { Waypoint(1, 1, <<1, 0, 0, 0, 1, 0>>),
    Waypoint(2, 2, <<2, 0 - 1, 1, 0 - 1, 1, 2>>),
    Waypoint(0, 2, <<2, 0 - 1, 1, 0, 1, 2>>),
    Waypoint(4, 4, <<0, 1, 1, 0, 1, 0>>),
    Waypoint(1, 1, <<2, 2, 2, 0, 1, 2>>),
    FarWaypoint(2, 2) }

Paths == UNION { [1..n -> Waypoints] : n \in 1..MaxPath }

\* A slip in the seeding: every solve starts from the starting angles.
ik_seed_starting_angles(start, previous) == start

\* The seed of a waypoint's solve: the configuration before it.
ik_seed(start, previous) == previous

\* A slip in the abort: the failing waypoint is counted from one.
path_aborted_from_one(index, reason) == [index |-> index + 1, reason |-> reason]

\* The aborted result: the failing waypoint's index, from 0, and the reason.
path_aborted(index, reason) == [index |-> index, reason |-> reason]

\* draw_fanuc_path's first step: the starting pose is rendered.
PathStart ==
  /\ status = "idle"
  /\ status' = "running"
  /\ last_op' = "draw_fanuc_path"
  /\ raised' = "none"
  /\ prev_angles' = starting_angles
  /\ renders' = <<starting_angles>>
  /\ fk_angles' = starting_angles
  /\ draw_fanuc(starting_angles)
  /\ UNCHANGED <<brushVars, last_arg, ee_frame_read, callerVars, drawVars, ikVars, path,
                 starting_angles, wp_index, trajectory, abort_info, resolves,
                 solves>>

\* One pass of draw_fanuc_path's loop: the waypoint's tool is selected and
\* its frame read, the end-effector frame resolved and solved for from the
\* previous configuration, and the solution appended and rendered.
PathWaypoint ==
  LET wp == path[wp_index + 1]
      i == frame_dh_index(wp.color, previously_selected_brush_frame)
      seed == ik_seed(starting_angles, prev_angles)
  IN
  /\ status = "running"
  /\ wp_index < Len(path)
  /\ last_op' = "draw_fanuc_path"
  /\ selection' = wp.color
  /\ last_assigned_nonzero' =
       IF wp.color # 0 THEN wp.color ELSE last_assigned_nonzero
  /\ previously_selected_brush_frame' =
       frame_dh_retained(wp.color, previously_selected_brush_frame)
  /\ resolves' = Append(resolves, wp_index)
  /\ IF ~PyIndexInRange(tool_relative_frames, i)
       THEN \* the read of selected_brush_frame_dh raises and nothing catches it
            /\ frame_dh_read' = ReadIndexError
            /\ raised' = "IndexError"
            /\ status' = "raised"
            /\ UNCHANGED <<toolVars, armVars, fkVars, wp_index, prev_angles,
                           trajectory, abort_info, renders, solves>>
       ELSE LET frame == get_ee_pose_from_brush(
                           wp.tip, PyGetItem(tool_relative_frames, i))
            IN
            /\ frame_dh_read' = ReadOk(i)
            /\ raised' = "none"
            /\ \E r \in calculate_ik(joints, frame, seed) :
                 /\ solves' = Append(solves,
                      [index |-> wp_index, frame |-> frame, seed |-> seed,
                       found |-> r.found, q |-> r.q, reason |-> r.reason])
                 /\ IF r.found
                      THEN /\ trajectory' = Append(trajectory, r.q)
                           /\ renders' = Append(renders, r.q)
                           /\ fk_angles' = r.q
                           /\ draw_fanuc(r.q)
                           /\ prev_angles' = r.q
                           /\ wp_index' = wp_index + 1
                           /\ UNCHANGED <<ee_frame_read, status, abort_info>>
                      ELSE /\ status' = "aborted"
                           /\ abort_info' = path_aborted(wp_index, r.reason)
                           /\ UNCHANGED <<toolVars, armVars, fkVars, wp_index,
                                          prev_angles, trajectory, renders>>
  /\ UNCHANGED <<last_arg, callerVars, drawVars, ikVars, path, starting_angles>>

\* draw_fanuc_path returns after the last waypoint.
PathReturn ==
  /\ status = "running"
  /\ wp_index = Len(path)
  /\ status' = "completed"
  /\ UNCHANGED <<brushVars, last_op, raised, last_arg, toolVars, armVars,
                 fkVars, callerVars, drawVars, ikVars, path, starting_angles, wp_index,
                 prev_angles, trajectory, abort_info, renders, resolves,
                 solves>>

\* The starting configurations: home, and one with an angle outside (-pi, pi].
StartingAngles == { <<0, 0, 0, 0, 0, 0>>, <<1, 0, 0, 0, 1, 5>> }

InitPath ==
  /\ InitFanuc
  /\ NoCallers
  /\ NoIkCall
  /\ path \in Paths
  /\ starting_angles \in StartingAngles
  /\ prev_angles = starting_angles

NextPath == PathStart \/ PathWaypoint \/ PathReturn

SpecPath == InitPath /\ [][NextPath]_vars

----------------------------------------------------------------------------
(* Round trip: calculate_fk, ee_frame, calculate_ik on the frame read, and   *)
(* calculate_fk and ee_frame again on the configuration returned.            *)

\* The configurations sent round: half the wrapped grid, and the same with
\* joint 6 a whole turn on (the 7.25 rad of the test's configuration).
RoundTripConfigs ==
  { <<q1, q2, q3, q4, q5, q6>> :
      q1 \in {0 - 1, 0}, q2 \in WrappedAngles, q3 \in WrappedAngles,
      q4 \in WrappedAngles, q5 \in WrappedAngles, q6 \in {1, 5} }

\* robot.calculate_fk(input_values).
RoundTripFk ==
  /\ last_op = "init"
  /\ CalculateFk(cfg[1])

\* The read of ee_frame after either calculate_fk.
RoundTripRead ==
  /\ last_op = "calculate_fk"
  /\ ReadEeFrame

\* calculate_ik on the frame read, seeded with ik_prev.
RoundTripIk ==
  /\ last_op = "ee_frame"
  /\ ik_return = NoReturn
  /\ last_op' = "calculate_ik"
  /\ raised' = "none"
  /\ ik_frame' = ee_frame_read
  /\ ik_return' \in calculate_ik(joints, ee_frame_read, ik_prev)
  /\ UNCHANGED <<brushVars, last_arg, toolVars, armVars, fkVars, callerVars, drawVars,
                 ik_prev, pathVars>>

\* calculate_fk on the configuration calculate_ik found.
RoundTripFkBack ==
  /\ last_op = "calculate_ik"
  /\ ik_return.found
  /\ CalculateFk(ik_return.q)

InitRoundTrip ==
  /\ InitFanuc
  /\ NoIkCall
  /\ NoPath
  /\ \E q \in RoundTripConfigs : cfg = [c \in Callers |-> q]

NextRoundTrip ==
  \/ RoundTripFk
  \/ RoundTripRead
  \/ RoundTripIk
  \/ RoundTripFkBack

SpecRoundTrip == InitRoundTrip /\ [][NextRoundTrip]_vars

----------------------------------------------------------------------------
(* Drawing: sequences of Joint.draw, Link.draw and draw_fanuc calls, with    *)
(* the artists' draw() and redraw() calls recorded.                          *)

\* The longest run of calls of one kind.
MaxDrawCalls == 3

\* The object an artist belongs to.
ArtistOwner(a) ==
  CASE a[1] = "joint" -> joints[a[2]]
    [] a[1] = "link" -> links[a[2]]
    [] a[1] = "base" -> base_frame
    [] OTHER -> zero_frame

\* The call the owner's draw makes on its artist.
ArtistCall(a) ==
  IF a[1] = "link" THEN Link_draw_call(ArtistOwner(a))
  ELSE Joint_draw_call(ArtistOwner(a))

\* joint.draw() on joint 1, which _setup_joints has drawn once already.
DrawJoint ==
  /\ Len(artist_calls[<<"joint", 1>>]) <= MaxDrawCalls
  /\ last_op' = "Joint.draw"
  /\ raised' = "none"
  /\ joints' = [joints EXCEPT ![1] = Joint_draw(joints[1])]
  /\ artist_calls' = [artist_calls EXCEPT ![<<"joint", 1>>] =
                         Append(@, ArtistCall(<<"joint", 1>>))]
  /\ UNCHANGED <<brushVars, last_arg, toolVars, base_frame, zero_frame, links,
                 fanuc_drawn_once, fkVars, callerVars, ikVars, pathVars,
                 initialize_calls, fanuc_draws>>

\* link.draw() on link 1.
DrawLink ==
  /\ Len(artist_calls[<<"link", 1>>]) < MaxDrawCalls
  /\ last_op' = "Link.draw"
  /\ raised' = "none"
  /\ links' = [links EXCEPT ![1] = Link_draw(links[1])]
  /\ artist_calls' = [artist_calls EXCEPT ![<<"link", 1>>] =
                         Append(@, ArtistCall(<<"link", 1>>))]
  /\ UNCHANGED <<brushVars, last_arg, toolVars, joints, base_frame, zero_frame,
                 fanuc_drawn_once, fkVars, callerVars, ikVars, pathVars,
                 initialize_calls, fanuc_draws>>

\* draw_fanuc(joint_angles): every Joint and Link is drawn, and
\* initialize_fanuc_drawing runs when _drawn_once is not set.
DrawFanucRecorded(joint_angles) ==
  /\ fanuc_draws < MaxDrawCalls
  /\ last_op' = "draw_fanuc"
  /\ raised' = "none"
  /\ fk_angles' = joint_angles
  /\ draw_fanuc(joint_angles)
  /\ fanuc_draws' = fanuc_draws + 1
  /\ initialize_calls' =
       IF ~fanuc_drawn_once THEN initialize_calls + 1 ELSE initialize_calls
  /\ artist_calls' = [a \in Artists |-> Append(artist_calls[a], ArtistCall(a))]
  /\ UNCHANGED <<brushVars, last_arg, ee_frame_read, callerVars, ikVars,
                 pathVars>>

\* The configurations drawn.
DrawInputs == { <<0, 0, 0, 0, 0, 0>>, <<1, 0 - 1, 0, 0, 1, 0>> }

InitDraw == InitFanuc /\ NoCallers /\ NoIkCall /\ NoPath

NextDraw ==
  \/ DrawJoint
  \/ DrawLink
  \/ \E joint_angles \in DrawInputs : DrawFanucRecorded(joint_angles)

SpecDraw == InitDraw /\ [][NextDraw]_vars

----------------------------------------------------------------------------
(* Claims about the brush *)

\* C1: after every read of selected_brush_frame_dh the value returned is the
\* relative frame bound to the effective tool id: the selection when it is
\* non-zero, else the last non-zero id an earlier read used (1 before any),
\* which is what _previously_selected_brush_frame holds after the read.
C1_ReadReturnsEffectiveToolFrame ==
  last_op = "selected_brush_frame_dh" =>
    LET id == IF selection # 0 THEN selection
              ELSE previously_selected_brush_frame IN
    /\ id \in 1..NumColors
    /\ frame_dh_read.outcome = "ok"
    /\ frame_dh_read.frame = tool_relative_frames[id]

\* C2: the id the resolver retains is the most recent non-zero value assigned
\* to selection, so a read with selection 0 gives that tool's frame whether
\* or not a frame was read while it was selected.
C2_RetainsLastAssignedNonZero ==
  last_assigned_nonzero # 0 =>
    /\ previously_selected_brush_frame = last_assigned_nonzero
    /\ (last_op = "selected_brush_frame_dh" /\ selection = 0) =>
          /\ frame_dh_read.outcome = "ok"
          /\ last_assigned_nonzero \in 1..NumColors
          /\ frame_dh_read.frame = tool_relative_frames[last_assigned_nonzero]

\* C3: the stored selection is always an integer in 0..N.
C3_SelectionInRange == selection \in 0..NumColors

----------------------------------------------------------------------------
(* Claims about the shape checks *)

TransformOps ==
  {"set_dh_transform", "set_final_transform", "update_tool_frame", "update_frames"}

\* C4: a transform-taking operation handed a value that is not a 4x4 numpy
\* array raises, and stores nothing: every stored transform stays a 4x4 array.
C4_BadShapeRaisesAndStoresNothing ==
  /\ (/\ last_op \in TransformOps
      /\ \E k \in 1..Len(last_arg) :
            ~check_proper_numpy_format(last_arg[k], <<4, 4>>))
       => raised # "none"
  /\ check_proper_numpy_format(tool_base_frame, <<4, 4>>)
  /\ \A j \in Joints :
       /\ check_proper_numpy_format(joints[j].dh_transform, <<4, 4>>)
       /\ check_proper_numpy_format(joints[j].final_transform, <<4, 4>>)
       /\ \A k \in 1..2 :
            check_proper_numpy_format(links[j].drawing_frames[k], <<4, 4>>)

----------------------------------------------------------------------------
(* Claims about forward kinematics *)

\* C5 as stated: after calculate_fk has loaded T1..T6, ee_frame reports
\* base-mount offset . T1 . T2 . T3 . T4 . T5 . T6.
C5_EeFrameIsBaseTimesChain ==
  (last_op = "ee_frame" /\ fk_angles # <<>>) =>
     ee_frame_read = MatMul(BaseFrame, ChainProduct(fk_angles, 6))

\* C5 as amended: ee_frame reports T1 . T2 . T3 . T4 . T5 . T6 in joint order,
\* without the base-mount offset; draw_fanuc is what applies the offset, and
\* stores base-mount offset . T1 ... T6 as joint 6's final_transform.
C5_EeFrameIsChainDrawAddsBase ==
  /\ (last_op = "ee_frame" /\ fk_angles # <<>>) =>
        ee_frame_read = ChainProduct(fk_angles, 6)
  /\ last_op = "draw_fanuc" =>
        /\ joints[6].final_transform = MatMul(BaseFrame, ChainProduct(fk_angles, 6))
        /\ joints[6].final_transform = MatMul(BaseFrame, ee_frame(joints))

\* C5's case: ee_frame read after a configuration away from zero was loaded
\* on a Fanuc that has been drawn, and the offset is visible in joint 6.
C5_Witness ==
  /\ last_op = "ee_frame"
  /\ fk_angles = <<0 - 1, 1, 0 - 1, 1, 0 - 1, 1>>
  /\ fanuc_drawn_once
  /\ joints[6].final_transform # ee_frame_read

\* C6 as stated: under every interleaving each caller obtains the frame of
\* its own configuration.
C6_EachCallerGetsOwnFrame ==
  \A c \in Callers : pc[c] = 7 => result[c] = ChainProduct(cfg[c], 6)

\* C6 as amended: a caller whose calculate_fk-then-ee_frame no other caller's
\* step overlapped obtains the frame of its own configuration.
C6_UnoverlappedCallerGetsOwnFrame ==
  \A c \in Callers :
     (pc[c] = 7 /\ ~overlapped[c]) => result[c] = ChainProduct(cfg[c], 6)

\* C6's case: both callers ran to the end, one after the other, and obtained
\* different frames.
C6_Witness ==
  /\ \A c \in Callers : pc[c] = 7 /\ ~overlapped[c]
  /\ result[1] # result[2]

----------------------------------------------------------------------------
(* Claims about inverse kinematics *)

\* The test the claims apply to a configuration: angle j within joint j's
\* [low, high], bounds included.
LimitsHold(q) ==
  \A j \in Joints :
     joints[j].joint_limit[1] <= q[j] /\ q[j] <= joints[j].joint_limit[2]

\* The total angular distance, by the mapping of each difference onto
\* (-pi, pi]: of d, d - 4 and d + 4 quarter turns, the one in -1..2.
WrappedDifference(d) ==
  CHOOSE w \in WrappedAngles : \E k \in (0 - 3)..3 : w = d + 4 * k

TotalAngularDistance(seed, q) ==
  LET m(j) == WrappedDifference(q[j] - seed[j])
      mag(j) == IF m(j) < 0 THEN 0 - m(j) ELSE m(j)
  IN mag(1) + mag(2) + mag(3) + mag(4) + mag(5) + mag(6)

\* C9: whenever calculate_ik returns found = true, the configuration has six
\* angles, every angle lies within its joint's limits (bounds inclusive), and
\* the configuration is a branch of the frame asked for: a candidate outside
\* a limit was discarded, not moved into range.
C9_FoundConfigurationWithinLimits ==
  ik_return.found =>
    /\ Len(ik_return.q) = 6
    /\ LimitsHold(ik_return.q)
    /\ ChainProduct(ik_return.q, 6) = ik_frame

\* calculate_ik returned a configuration for a frame that has a branch
\* outside the limits.
C9_Witness ==
  /\ ik_return.found
  /\ \E q \in Branches(ik_frame) : ~LimitsHold(q)

\* C10: whenever calculate_ik(T, seed) returns found = true, the total angular
\* distance from the seed to the returned configuration is at most that from
\* the seed to every branch for T that satisfies all joint limits.
C10_FoundConfigurationNearestSeed ==
  ik_return.found =>
    \A p \in FkPairs :
       (p.frame = ik_frame /\ LimitsHold(p.q)) =>
         TotalAngularDistance(ik_prev, ik_return.q)
           <= TotalAngularDistance(ik_prev, p.q)

\* calculate_ik chose between branches within the limits at different
\* distances from a seed with an angle outside (-pi, pi].
C10_Witness ==
  /\ ik_return.found
  /\ \E j \in Joints : ik_prev[j] \notin WrappedAngles
  /\ \E q \in Branches(ik_frame) :
        /\ LimitsHold(q)
        /\ TotalAngularDistance(ik_prev, ik_return.q)
             < TotalAngularDistance(ik_prev, q)

----------------------------------------------------------------------------
(* Claims about the path executor *)

\* The indices 0, 1, ..., n - 1 in order.
IndicesUpTo(n) == [k \in 1..n |-> k - 1]

\* C7: when calculate_ik fails at waypoint index i, draw_fanuc_path stops at
\* once: the waypoints resolved and solved are those of indices 0..i and no
\* other, the poses rendered are the starting pose and the i solved ones, and
\* what it returns is the trajectory of the i configurations solved so far
\* with index i and the reason of the failure.
C7_AbortStopsAtFailingWaypoint ==
  status = "aborted" =>
    LET i == abort_info.index IN
    /\ i \in 0..(Len(path) - 1)
    /\ wp_index = i
    /\ resolves = IndicesUpTo(i + 1)
    /\ Len(solves) = i + 1
    /\ \A k \in 1..(i + 1) : solves[k].index = k - 1
    /\ \A k \in 1..i : solves[k].found
    /\ ~solves[i + 1].found
    /\ trajectory = [k \in 1..i |-> solves[k].q]
    /\ Len(renders) = i + 1
    /\ abort_info.reason = solves[i + 1].reason
    /\ abort_info.reason \in {"unreachable", "limits"}
    /\ abort_info.reason = "unreachable" => Branches(solves[i + 1].frame) = {}
    /\ abort_info.reason = "limits" =>
         /\ Branches(solves[i + 1].frame) # {}
         /\ \A q \in Branches(solves[i + 1].frame) : ~LimitsHold(q)

\* A 3-waypoint path whose second waypoint is unreachable: a trajectory of
\* length 1 and an aborted result referencing index 1.
C7_Witness ==
  /\ status = "aborted"
  /\ Len(path) = 3
  /\ abort_info = [index |-> 1, reason |-> "unreachable"]
  /\ Len(trajectory) = 1

\* C8: the renderer is called once for the initial pose and then once per
\* solved waypoint, in path order; the waypoints are resolved and solved in
\* the order 0, 1, 2, ... with none left out or solved twice, each solve
\* seeded with the configuration before it and asked for its own waypoint's
\* frame.
C8_RendersFollowPathOrder ==
  IF status = "idle" THEN renders = <<>> /\ solves = <<>>
  ELSE
    /\ renders = <<starting_angles>> \o trajectory
    /\ resolves = IndicesUpTo(Len(resolves))
    /\ Len(resolves) \in {Len(solves), Len(solves) + 1}
    /\ Len(solves) \in {Len(trajectory), Len(trajectory) + 1}
    /\ trajectory = [k \in 1..Len(trajectory) |-> solves[k].q]
    /\ \A k \in 1..Len(solves) :
         /\ solves[k].index = k - 1
         /\ solves[k].seed = IF k = 1 THEN starting_angles ELSE solves[k - 1].q
         /\ k < Len(solves) => solves[k].found
         /\ solves[k].found => ChainProduct(solves[k].q, 6) = solves[k].frame
         /\ \E rel \in { tool_relative_frames[n] : n \in 1..NumColors } :
              solves[k].frame = get_ee_pose_from_brush(path[k].tip, rel)
    /\ status = "completed" =>
         Len(trajectory) = Len(path) /\ Len(solves) = Len(path)

\* A path of three waypoints drawn to its end: four poses rendered, the
\* three solved ones all different.
C8_Witness ==
  /\ status = "completed"
  /\ Len(path) = 3
  /\ Len(renders) = 4
  /\ renders[2] # renders[3]
  /\ renders[3] # renders[4]
  /\ renders[2] # starting_angles

----------------------------------------------------------------------------
(* Claims about the round trip *)

\* The configuration sent round, each angle wrapped into (-pi, pi].
WrappedConfiguration(q) == [j \in Joints |-> WrappedDifference(q[j])]

----------------------------------------------------------------------------
(* Claims about calculate_ik's failures *)

\* Whether the distance D from the shoulder on the given side to the point w
\* exceeds the sum of the two arm-link lengths or falls short of their
\* difference.  D^2 = x^2 + y^2 + z^2 + a_1^2 - 2 * a_1 * side * r with
\* r = sqrt(x^2 + y^2); the comparisons with r are made on squares.
DistanceOutOfRange(w, side) ==
  LET s == w[1] * w[1] + w[2] * w[2]
      sum == DHTable[2].a + DHTable[4].d
      difference == Abs(DHTable[2].a - DHTable[4].d)
      c2s == 4 * a_1 * a_1 * s
      over == s + w[3] * w[3] + a_1 * a_1 - sum * sum
      under == s + w[3] * w[3] + a_1 * a_1 - difference * difference
      exceeds == IF side = 1 THEN over > 0 /\ over * over > c2s
                 ELSE over > 0 \/ over * over < c2s
      short == IF side = 1 THEN under < 0 \/ under * under < c2s
               ELSE under < 0 /\ under * under > c2s
  IN exceeds \/ short

----------------------------------------------------------------------------
(* Claims about drawing *)

\* C13: on every Joint's and every Link's artist the calls made so far are
\* one draw(), made by the first draw call, followed by redraw() only; and
\* initialize_fanuc_drawing has run once if draw_fanuc was called at all,
\* during its first call.
C13_DrawOnceThenRedraw ==
  /\ \A a \in Artists :
       /\ artist_calls[a] # <<>> => artist_calls[a][1] = "draw"
       /\ \A k \in 2..Len(artist_calls[a]) : artist_calls[a][k] = "redraw"
       /\ ArtistOwner(a).drawn_once <=> artist_calls[a] # <<>>
  /\ initialize_calls = IF fanuc_draws = 0 THEN 0 ELSE 1
  /\ fanuc_drawn_once <=> fanuc_draws > 0

\* draw_fanuc was called more than once and joint 1, link 1 and the base
\* frame were each drawn at least three times.
C13_Witness ==
  /\ fanuc_draws >= 2
  /\ Len(artist_calls[<<"joint", 1>>]) >= 3
  /\ Len(artist_calls[<<"link", 1>>]) >= 3
  /\ Len(artist_calls[<<"base", 0>>]) >= 3
  /\ initialize_calls = 1

----------------------------------------------------------------------------
(* Claims about the brush frame index *)

\* C14: a read of selected_brush_frame_dh never fails: no read has raised
\* IndexError, and with a valid tool id selected and a valid tool the last
\* non-zero one read, the index the next read uses is within 0..3.
C14_FrameIndexAlwaysInRange ==
  /\ frame_dh_read.outcome # "IndexError"
  /\ (selection \in 0..NumColors
        /\ previously_selected_brush_frame \in 1..NumColors)
       => frame_dh_index(selection, previously_selected_brush_frame)
            \in 0..(NumColors - 1)

====
